---------------------------- MODULE Spec2Model ----------------------------
(***************************************************************************)
(* A model of flake-checker (src/src/main.rs): the check engine            *)
(* (nixpkgs_deps, MaxAge::run, Refs::run, check_flake_lock) and the        *)
(* program around it (main, Summary::generate_markdown).                   *)
(*                                                                         *)
(* Strings are sequences of one-character strings, so that starts_with,    *)
(* equality and "contains verbatim" are computed.  The fixed text of a     *)
(* format! template is kept as one multi-character token per piece.        *)
(* The backtick of the message templates is written as an apostrophe.     *)
(* Option<T> is a sequence of length 0 (None) or 1 (Some).                 *)
(* i64 is scaled to 31 bits, so that every difference of two values fits   *)
(* the model checker's integers; the ratios that matter (1000 ms per       *)
(* second in Duration's range, 86400 s per day) are the real ones.         *)
(***************************************************************************)
EXTENDS Integers, Sequences, FiniteSets, TLC

VARIABLES
    flake_lock,      \* the parsed FlakeLock; only .nodes is read by the checks
    config,          \* Config {allowed_refs, max_days}
    clock,           \* what Utc::now().timestamp() returns when sampled
    pc,              \* position in the program
    run,             \* 1 or 2: which call of check_flake_lock is executing
    deps,            \* local nixpkgs_deps of the running check (a fresh HashMap)
    iter,            \* names the running for loop has still to visit, in order
    issues,          \* local issues of the running check
    is1,             \* local is1 of check_flake_lock: what MaxAge::run returned
    is2,             \* local is2 of check_flake_lock: what Refs::run returned
    now_timestamp,   \* local of the loop of MaxAge::run: <<>> (not in scope) or
                     \* <<[name, now]>>, the clock sampled for the node in hand
    returned,        \* values returned by the completed calls of check_flake_lock
    panic,           \* <<>> or <<[where, name, now]>>: the thread panicked
    file,            \* the flake.lock file on disk: <<>> (unreadable) or <<text>>
    policy,          \* the embedded policy.json: <<>> (malformed) or <<Config>>
    env,             \* GITHUB_STEP_SUMMARY: <<>> (unset) or <<path state>>
    dest0,           \* the report destination before the program ran
    dest,            \* the report destination now
    summary_md,      \* the rendered report still to be written (chunks)
    exit_status      \* <<>> while running, else <<code>>

vars == <<flake_lock, config, clock, pc, run, deps, iter, issues, is1, is2,
          now_timestamp, returned, panic,
          file, policy, env, dest0, dest, summary_md, exit_status>>

input_vars == <<flake_lock, config, file, policy, env, dest0>>
loop_vars == <<deps, iter, issues>>
out_vars == <<dest, summary_md>>

---------------------------------------------------------------------------
(* Bounds of the model *)

MaxNodes == 2
MaxTicks == 1

---------------------------------------------------------------------------
(* Integers *)

IntMax == 2^30 - 1
IntMin == -(2^30)
MILLIS_PER_SEC == 1000
SECS_PER_DAY == 86400

\* A subtraction of two i64: in range it is the difference; out of range the
\* build decides: overflow checks panic, otherwise two's-complement wrapping.
Wrap(v) == IF v > IntMax THEN (v + IntMin) + IntMin
           ELSE IF v < IntMin THEN (v - IntMin) - IntMin
           ELSE v
SubI64(a, b) ==
    IF a - b >= IntMin /\ a - b <= IntMax
    THEN {[panic |-> FALSE, value |-> a - b]}
    ELSE {[panic |-> TRUE, value |-> 0], [panic |-> FALSE, value |-> Wrap(a - b)]}

\* chrono::Duration::seconds(diff): panics outside [-i64::MAX ms, i64::MAX ms].
DurationMaxSecs == IntMax \div MILLIS_PER_SEC
DurationSecondsPanics(diff) == diff < -DurationMaxSecs \/ diff > DurationMaxSecs

\* Duration::num_days(): whole days, truncated toward zero.
NumDays(diff) ==
    IF diff >= 0 THEN diff \div SECS_PER_DAY ELSE -((-diff) \div SECS_PER_DAY)

---------------------------------------------------------------------------
(* Strings *)

Prefix == <<"n", "i", "x", "p", "k", "g", "s">>

\* A prefix test that stops one character early.
starts_with_short(k, p) ==
    Len(k) >= Len(p) - 1 /\ SubSeq(k, 1, Len(p) - 1) = SubSeq(p, 1, Len(p) - 1)

starts_with(k, p) == Len(k) >= Len(p) /\ SubSeq(k, 1, Len(p)) = p

Digit(d) == CASE d = 0 -> "0" [] d = 1 -> "1" [] d = 2 -> "2" [] d = 3 -> "3"
              [] d = 4 -> "4" [] d = 5 -> "5" [] d = 6 -> "6" [] d = 7 -> "7"
              [] d = 8 -> "8" [] d = 9 -> "9"

RECURSIVE DisplayNat(_)
DisplayNat(n) == IF n < 10 THEN <<Digit(n)>>
                 ELSE DisplayNat(n \div 10) \o <<Digit(n % 10)>>

\* Display of an i64 ({} in format!)
DisplayI64(n) == IF n < 0 THEN <<"-">> \o DisplayNat(-n) ELSE DisplayNat(n)

RefsMessage(name, git_ref) ==
    <<"dependency '">> \o name \o <<"' has a Git ref of '">> \o git_ref
        \o <<"' which is not explicitly allowed">>

MaxAgeMessage(name, num_days_old, max_days) ==
    <<"dependency '">> \o name \o <<"' is **">> \o DisplayI64(num_days_old)
        \o <<"** days old, which is over the max of **">>
        \o DisplayI64(max_days) \o <<"**">>

---------------------------------------------------------------------------
(* The checks *)

\* A membership test that looks at the first element only.
contains_first(allowed_refs, git_ref) ==
    Len(allowed_refs) > 0 /\ allowed_refs[1] = git_ref

\* Vec<String>::contains
contains(allowed_refs, git_ref) ==
    \E i \in 1..Len(allowed_refs) : allowed_refs[i] = git_ref

\* A selector that looks for "nixpkgs" anywhere in the name.
nixpkgs_deps_contains(nodes) ==
    [k \in {n \in DOMAIN nodes :
              \E i \in 1..Len(n) :
                 /\ i + Len(Prefix) - 1 <= Len(n)
                 /\ SubSeq(n, i, i + Len(Prefix) - 1) = Prefix} |-> nodes[k]]

nixpkgs_deps(nodes) ==
    [k \in {n \in DOMAIN nodes : starts_with(n, Prefix)} |-> nodes[k]]

\* The orders in which a HashMap with these keys can be iterated: each
\* collect() builds a map with a RandomState of its own, so any order.
IterOrders(m) ==
    {s \in [1..Cardinality(DOMAIN m) -> DOMAIN m] :
        \A i, j \in DOMAIN s : i # j => s[i] # s[j]}

\* Body of the loop of Refs::run for one (name, dep): the issues it pushes.
RefsBody(name, dep, allowed_refs) ==
    IF dep.original # <<>> /\ dep.original[1].git_ref # <<>>
          /\ ~contains(allowed_refs, dep.original[1].git_ref[1])
    THEN <<[kind |-> "Disallowed",
            message |-> RefsMessage(name, dep.original[1].git_ref[1])]>>
    ELSE <<>>

\* A loop body that takes a missing locked descriptor for the epoch
\* (unwrap_or_default instead of if let).
MaxAgeBody_default(name, dep, now, max_days) ==
    LET lm == IF dep.locked = <<>> THEN 0 ELSE dep.locked[1].last_modified
    IN {IF d.panic \/ DurationSecondsPanics(d.value)
        THEN [panic |-> TRUE, push |-> <<>>]
        ELSE IF NumDays(d.value) > max_days
             THEN [panic |-> FALSE,
                   push |-> <<[kind |-> "Outdated",
                               message |-> MaxAgeMessage(name,
                                              NumDays(d.value), max_days)]>>]
             ELSE [panic |-> FALSE, push |-> <<>>]
          : d \in SubI64(now, lm)}

\* Body of the loop of MaxAge::run for one (name, dep) with the clock at now:
\* the outcomes it can have, each the issues pushed or a panic.
MaxAgeBody(name, dep, now, max_days) ==
    IF dep.locked = <<>> THEN {[panic |-> FALSE, push |-> <<>>]}
    ELSE {IF d.panic \/ DurationSecondsPanics(d.value)
          THEN [panic |-> TRUE, push |-> <<>>]
          ELSE IF NumDays(d.value) > max_days
               THEN [panic |-> FALSE,
                     push |-> <<[kind |-> "Outdated",
                                 message |-> MaxAgeMessage(name,
                                                NumDays(d.value), max_days)]>>]
               ELSE [panic |-> FALSE, push |-> <<>>]
            : d \in SubI64(now, dep.locked[1].last_modified)}

\* The two results appended the other way round.
Append2_swapped(a, b) == b \o a

\* is1.append(&mut is2); is1
Append2(a, b) == a \o b

---------------------------------------------------------------------------
(* The inputs the model draws from *)

N_nixpkgs == Prefix
N_unstable == Prefix \o <<"-", "u">>
N_nixpkg == <<"n", "i", "x", "p", "k", "g">>
N_xnixpkgs == <<"x">> \o Prefix
NamePool == {N_nixpkgs, N_unstable, N_nixpkg, N_xnixpkgs}

R_main == <<"m", "a", "i", "n">>
R_ma == <<"m", "a">>

\* The wall clock when the program starts (day 10 of the epoch, 00:00:00).
StartTime == 10 * SECS_PER_DAY

LmSoon == StartTime + 100                  \* 100 s in the future
LmEdge == StartTime + 1 - 3 * SECS_PER_DAY \* 3 days old 1 s after the start
LastModifiedValues == {LmSoon, LmEdge, IntMax, IntMin}

LockedValues == {<<>>} \cup {<<[last_modified |-> t]>> : t \in LastModifiedValues}
OriginalValues == {<<>>, <<[git_ref |-> <<>>]>>,
                   <<[git_ref |-> <<R_main>>]>>, <<[git_ref |-> <<R_ma>>]>>}
NodeValues == [locked : LockedValues, original : OriginalValues]

Graphs ==
    UNION {[S -> NodeValues] :
             S \in {T \in SUBSET NamePool : Cardinality(T) <= MaxNodes}}

Configs == [allowed_refs : {<<R_main>>, <<R_main, R_ma>>},
            max_days : {-1, 2}]

EmptyGraph == [n \in {} |-> 0]

---------------------------------------------------------------------------
(* check_flake_lock, statement by statement *)

Running == exit_status = <<>>

Panic(where, name) ==
    /\ panic' = <<[where |-> where, name |-> name, now |-> clock]>>
    /\ exit_status' = <<101>>
    /\ pc' = "exit"

\* Utc::now() moves on.  The clock is read on line 114 only, so it is enough
\* to let time pass right before a sample.
Tick ==
    /\ Running
    /\ pc = "maxage" /\ iter # <<>>
    /\ clock < StartTime + MaxTicks
    /\ clock' = clock + 1
    /\ UNCHANGED <<input_vars, loop_vars, out_vars, pc, run, is1, is2,
                   now_timestamp, returned, panic, exit_status>>

\* check_flake_lock calls MaxAge::run: lines 110-111.
MaxAgeRun ==
    /\ pc = "call"
    /\ deps' = nixpkgs_deps(flake_lock.nodes)
    /\ iter' \in IterOrders(deps')
    /\ issues' = <<>>
    /\ now_timestamp' = <<>>
    /\ pc' = "maxage"
    /\ UNCHANGED <<input_vars, out_vars, clock, run, is1, is2, returned, panic,
                   exit_status>>

\* One iteration of the loop of MaxAge::run: lines 112-128.
MaxAgeIter ==
    /\ pc = "maxage" /\ iter # <<>>
    /\ LET name == Head(iter)
           dep == deps[name]
       IN \E out \in MaxAgeBody(name, dep, clock, config.max_days) :
            /\ now_timestamp' =
                 IF dep.locked = <<>> THEN <<>>
                 ELSE <<[name |-> name, now |-> clock]>>
            /\ IF out.panic
               THEN /\ Panic("MaxAge::run", name)
                    /\ UNCHANGED <<iter, issues>>
               ELSE /\ issues' = issues \o out.push
                    /\ iter' = Tail(iter)
                    /\ UNCHANGED <<pc, panic, exit_status>>
    /\ UNCHANGED <<input_vars, out_vars, clock, run, deps, is1, is2, returned>>

\* MaxAge::run returns (line 129); check_flake_lock binds is1 (line 140).
MaxAgeReturn ==
    /\ pc = "maxage" /\ iter = <<>>
    /\ is1' = issues
    /\ now_timestamp' = <<>>
    /\ pc' = "refs_call"
    /\ UNCHANGED <<input_vars, loop_vars, out_vars, clock, run, is2,
                   returned, panic, exit_status>>

\* check_flake_lock calls Refs::run: lines 86-87.
RefsRun ==
    /\ pc = "refs_call"
    /\ deps' = nixpkgs_deps(flake_lock.nodes)
    /\ iter' \in IterOrders(deps')
    /\ issues' = <<>>
    /\ pc' = "refs"
    /\ UNCHANGED <<input_vars, out_vars, clock, run, is1, is2, now_timestamp,
                   returned, panic, exit_status>>

\* One iteration of the loop of Refs::run: lines 88-99.
RefsIter ==
    /\ pc = "refs" /\ iter # <<>>
    /\ issues' = issues \o RefsBody(Head(iter), deps[Head(iter)],
                                    config.allowed_refs)
    /\ iter' = Tail(iter)
    /\ UNCHANGED <<input_vars, out_vars, clock, pc, run, deps, is1, is2,
                   now_timestamp, returned, panic, exit_status>>

\* Refs::run returns (line 100); check_flake_lock binds is2 (line 145).
RefsReturn ==
    /\ pc = "refs" /\ iter = <<>>
    /\ is2' = issues
    /\ pc' = "append"
    /\ UNCHANGED <<input_vars, loop_vars, out_vars, clock, run, is1,
                   now_timestamp, returned, panic, exit_status>>

\* check_flake_lock appends and returns: lines 151-152.
CheckReturn ==
    /\ pc = "append"
    /\ returned' = Append(returned, Append2(is1, is2))
    /\ pc' = "returned"
    /\ UNCHANGED <<input_vars, loop_vars, out_vars, clock, run, is1, is2,
                   now_timestamp, panic, exit_status>>

\* The caller runs the Runner a second time over the same graph and config.
CallAgain ==
    /\ pc = "returned" /\ run = 1
    /\ run' = 2
    /\ pc' = "call"
    /\ UNCHANGED <<input_vars, loop_vars, out_vars, clock, is1, is2,
                   now_timestamp, returned, panic, exit_status>>

CheckNext ==
    \/ MaxAgeRun \/ MaxAgeIter \/ MaxAgeReturn
    \/ RefsRun \/ RefsIter \/ RefsReturn \/ CheckReturn

Init ==
    /\ flake_lock \in [nodes : Graphs]
    /\ config \in Configs
    /\ clock = StartTime
    /\ pc = "call"
    /\ run = 1
    /\ deps = EmptyGraph /\ iter = <<>> /\ issues = <<>>
    /\ is1 = <<>> /\ is2 = <<>>
    /\ now_timestamp = <<>>
    /\ returned = <<>>
    /\ panic = <<>>
    /\ file = <<>> /\ policy = <<>> /\ env = <<>>
    /\ dest0 = <<>> /\ dest = <<>> /\ summary_md = <<>>
    /\ exit_status = <<>>

\* one call of check_flake_lock
Next == CheckNext \/ Tick

Spec == Init /\ [][Next]_vars

\* two calls of check_flake_lock over the same graph and configuration
NextTwice == CheckNext \/ CallAgain \/ Tick

SpecTwice == Init /\ [][NextTwice]_vars

---------------------------------------------------------------------------
(* main and Summary::generate_markdown, statement by statement *)

\* What main can find at flake_lock_path: no readable file, a text that is no
\* FlakeLock, or the JSON text of a graph.
MainGraphs == {g \in Graphs : Cardinality(DOMAIN g) <= 1}
Files == {<<>>, <<[json |-> <<>>]>>} \cup {<<[json |-> <<g>>]>> : g \in MainGraphs}
Policies == {<<>>} \cup {<<c>> : c \in Configs}
\* GITHUB_STEP_SUMMARY: unset, or a path that can or cannot be opened
Envs == {<<>>, <<"openable">>, <<"unopenable">>}
\* the destination: absent, or a file with its content
Dests == {<<>>, <<<<[kind |-> "earlier", message |-> <<>>]>>>>}

\* handlebars.render("summary.md", &data): a heading, then one entry per issue
RenderSummary(is) == <<[kind |-> "heading", message |-> <<>>]>> \o is

\* line 217: read_to_string(flake_lock_path)?
ReadToString ==
    /\ pc = "read"
    /\ IF file = <<>>
       THEN exit_status' = <<1>> /\ pc' = "exit"
       ELSE pc' = "parse" /\ UNCHANGED exit_status
    /\ UNCHANGED <<input_vars, loop_vars, out_vars, clock, run, is1, is2,
                   now_timestamp, returned, panic>>

\* line 218: serde_json::from_str(&flake_lock_file)?
ParseFlakeLock ==
    /\ pc = "parse"
    /\ IF file[1].json = <<>>
       THEN /\ exit_status' = <<1>> /\ pc' = "exit"
            /\ UNCHANGED flake_lock
       ELSE /\ flake_lock' = [nodes |-> file[1].json[1]]
            /\ pc' = "policy"
            /\ UNCHANGED exit_status
    /\ UNCHANGED <<config, file, policy, env, dest0, loop_vars, out_vars, clock,
                   run, is1, is2, now_timestamp, returned, panic>>

\* lines 220-222: the embedded policy.json, parsed with expect
ParsePolicy ==
    /\ pc = "policy"
    /\ IF policy = <<>>
       THEN Panic("main: policy", <<>>) /\ UNCHANGED config
       ELSE /\ config' = policy[1]
            /\ pc' = "call"
            /\ UNCHANGED <<panic, exit_status>>
    /\ UNCHANGED <<flake_lock, file, policy, env, dest0, loop_vars, out_vars,
                   clock, run, is1, is2, now_timestamp, returned>>

\* lines 189-197: the report is rendered in memory
RenderMarkdown ==
    /\ pc = "returned"
    /\ summary_md' = RenderSummary(returned[1])
    /\ pc' = "env"
    /\ UNCHANGED <<input_vars, loop_vars, dest, clock, run, is1, is2,
                   now_timestamp, returned, panic, exit_status>>

\* lines 198-199: std::env::var("GITHUB_STEP_SUMMARY").expect(..)
ReadEnv ==
    /\ pc = "env"
    /\ IF env = <<>>
       THEN Panic("main: env", <<>>)
       ELSE pc' = "open" /\ UNCHANGED <<panic, exit_status>>
    /\ UNCHANGED <<input_vars, loop_vars, out_vars, clock, run, is1, is2,
                   now_timestamp, returned>>

\* lines 200-204: OpenOptions::new().append(true).create(true).open(..).expect(..)
OpenDest ==
    /\ pc = "open"
    /\ IF env[1] = "unopenable"
       THEN Panic("main: open", <<>>) /\ UNCHANGED dest
       ELSE /\ dest' = IF dest = <<>> THEN <<<<>>>> ELSE dest
            /\ pc' = "write"
            /\ UNCHANGED <<panic, exit_status>>
    /\ UNCHANGED <<input_vars, loop_vars, summary_md, clock, run, is1, is2,
                   now_timestamp, returned>>

\* lines 205-207: write_all loops over write; each write appends a non-empty
\* prefix of what is left, or fails, and expect turns the failure into a panic
WriteAll ==
    /\ pc = "write" /\ summary_md # <<>>
    /\ \/ \E k \in 1..Len(summary_md) :
            /\ dest' = <<dest[1] \o SubSeq(summary_md, 1, k)>>
            /\ summary_md' = SubSeq(summary_md, k + 1, Len(summary_md))
            /\ UNCHANGED <<pc, panic, exit_status>>
       \/ Panic("main: write", <<>>) /\ UNCHANGED <<dest, summary_md>>
    /\ UNCHANGED <<input_vars, loop_vars, clock, run, is1, is2, now_timestamp,
                   returned>>

\* line 228: Ok(())
MainReturn ==
    /\ pc = "write" /\ summary_md = <<>>
    /\ exit_status' = <<0>>
    /\ pc' = "exit"
    /\ UNCHANGED <<input_vars, loop_vars, out_vars, clock, run, is1, is2,
                   now_timestamp, returned, panic>>

InitMain ==
    /\ file \in Files
    /\ policy \in Policies
    /\ env \in Envs
    /\ dest0 \in Dests
    /\ dest = dest0
    /\ flake_lock = [nodes |-> EmptyGraph]
    /\ config = [allowed_refs |-> <<>>, max_days |-> 0]
    /\ clock = StartTime
    /\ pc = "read"
    /\ run = 1
    /\ deps = EmptyGraph /\ iter = <<>> /\ issues = <<>>
    /\ is1 = <<>> /\ is2 = <<>>
    /\ now_timestamp = <<>>
    /\ returned = <<>>
    /\ panic = <<>>
    /\ summary_md = <<>>
    /\ exit_status = <<>>

NextMain ==
    \/ ReadToString \/ ParseFlakeLock \/ ParsePolicy
    \/ CheckNext
    \/ RenderMarkdown \/ ReadEnv \/ OpenDest \/ WriteAll \/ MainReturn
    \/ Tick

SpecMain == InitMain /\ [][NextMain]_vars

---------------------------------------------------------------------------
(* Reading an issue back: what the claims say about messages *)

Nixpkgs == <<"n", "i", "x", "p", "k", "g", "s">>

\* name is Nixpkgs followed by anything
Tracked(name) ==
    /\ Len(name) >= Len(Nixpkgs)
    /\ \A i \in 1..Len(Nixpkgs) : name[i] = Nixpkgs[i]

\* needle occurs in hay as a contiguous run of characters
Verbatim(hay, needle) ==
    \E i \in 1..(Len(hay) + 1) :
        /\ i + Len(needle) - 1 <= Len(hay)
        /\ \A j \in 1..Len(needle) : hay[i + j - 1] = needle[j]

Literals == {"dependency '", "' has a Git ref of '",
             "' which is not explicitly allowed", "' is **",
             "** days old, which is over the max of **", "**"}

LitIdx(m) == {i \in DOMAIN m : m[i] \in Literals}
NthLit(m, k) ==
    CHOOSE i \in LitIdx(m) : Cardinality({j \in LitIdx(m) : j < i}) = k - 1
\* the k-th substituted field of a message: the text between two literals
MsgField(m, k) == SubSeq(m, NthLit(m, k) + 1, NthLit(m, k + 1) - 1)
MessageName(m) == MsgField(m, 1)

DigitValue(c) == CHOOSE d \in 0..9 : Digit(d) = c
RECURSIVE ParseNat(_)
ParseNat(t) == IF t = <<>> THEN 0
               ELSE 10 * ParseNat(SubSeq(t, 1, Len(t) - 1)) + DigitValue(t[Len(t)])
ParseI64(t) == IF t # <<>> /\ t[1] = "-" THEN -ParseNat(Tail(t)) ELSE ParseNat(t)

\* positions of the issues of a kind about a node in a sequence of issues
About(seq, kind, name) ==
    {i \in DOMAIN seq : seq[i].kind = kind /\ MessageName(seq[i].message) = name}
AboutAny(seq, name) ==
    {i \in DOMAIN seq : MessageName(seq[i].message) = name}

Nodes == flake_lock.nodes
TrackedNodes == {n \in DOMAIN Nodes : Tracked(n)}
HasRef(n) == Nodes[n].original # <<>> /\ Nodes[n].original[1].git_ref # <<>>
RefOf(n) == Nodes[n].original[1].git_ref[1]
Allowed == {config.allowed_refs[i] : i \in DOMAIN config.allowed_refs}
HasLocked(n) == Nodes[n].locked # <<>>
LastModified(n) == Nodes[n].locked[1].last_modified

\* seconds divided by 86400, with truncation toward zero
WholeDays(secs) ==
    LET mag == IF secs >= 0 THEN secs ELSE -secs
        q == (mag - (mag % SECS_PER_DAY)) \div SECS_PER_DAY
    IN IF secs >= 0 THEN q ELSE -q

---------------------------------------------------------------------------
(* Claims *)

RefsDone == pc \in {"append", "returned"}

\* C1: when Refs::run has returned, every tracked node whose origin and
\* git_ref are both present has exactly one Disallowed issue (and no other
\* issue) in the result if its git_ref is not a member of allowed_refs, and no
\* issue at all if it is a member; the issue's message contains the node's
\* name and the git_ref verbatim.
C1_RefsExactlyOne ==
    RefsDone =>
        \A n \in TrackedNodes :
            HasRef(n) =>
                IF RefOf(n) \in Allowed
                THEN AboutAny(is2, n) = {}
                ELSE /\ Cardinality(About(is2, "Disallowed", n)) = 1
                     /\ AboutAny(is2, n) = About(is2, "Disallowed", n)
                     /\ \A i \in About(is2, "Disallowed", n) :
                          /\ Verbatim(is2[i].message, n)
                          /\ Verbatim(is2[i].message, RefOf(n))
                          /\ MsgField(is2[i].message, 2) = RefOf(n)

C1_Witness ==
    /\ RefsDone
    /\ \E n, m \in TrackedNodes :
         /\ HasRef(n) /\ RefOf(n) \notin Allowed
         /\ Cardinality(About(is2, "Disallowed", n)) = 1
         /\ HasRef(m) /\ RefOf(m) \in Allowed
         /\ AboutAny(is2, m) = {}

\* C3: in every sequence check_flake_lock has returned, every Outdated issue
\* is at a lower index than every Disallowed issue, and the sequence is the
\* result of MaxAge::run followed, without interleaving, by the result of
\* Refs::run.
C3_OutdatedBeforeDisallowed ==
    /\ \A k \in DOMAIN returned :
         \A i, j \in DOMAIN returned[k] :
            (returned[k][i].kind = "Outdated"
                /\ returned[k][j].kind = "Disallowed") => i < j
    /\ pc = "returned" =>
         /\ Len(returned[run]) = Len(is1) + Len(is2)
         /\ SubSeq(returned[run], 1, Len(is1)) = is1
         /\ SubSeq(returned[run], Len(is1) + 1, Len(returned[run])) = is2
         /\ \A i \in DOMAIN is1 : is1[i].kind = "Outdated"
         /\ \A i \in DOMAIN is2 : is2[i].kind = "Disallowed"

C3_Witness ==
    /\ pc = "returned"
    /\ \E i, j \in DOMAIN returned[run] :
         /\ returned[run][i].kind = "Outdated"
         /\ returned[run][j].kind = "Disallowed"

\* C4 (state part): the map a check has obtained from nixpkgs_deps holds
\* exactly the entries of the input whose name starts with "nixpkgs", each
\* with the input's node value.
C4_Selected ==
    pc \in {"maxage", "refs"} =>
        /\ DOMAIN deps = {n \in DOMAIN Nodes : Tracked(n)}
        /\ \A n \in DOMAIN deps : deps[n] = Nodes[n]

\* C4: nixpkgs_deps returns exactly the entries whose name starts with
\* "nixpkgs", with the input's values, and no step of the checks changes the
\* input mapping.
C4_SelectorExact == [](C4_Selected) /\ [][flake_lock' = flake_lock]_vars

C4_Witness ==
    /\ pc = "maxage"
    /\ DOMAIN deps # {}
    /\ DOMAIN deps # DOMAIN Nodes
    /\ N_nixpkg \in DOMAIN Nodes

\* C5: no issue in what check_flake_lock returns is about a node whose name
\* does not start with "nixpkgs"; with no such node in the graph the returned
\* sequence is empty, whatever the untracked nodes hold.
C5_OnlyTracked ==
    \A k \in DOMAIN returned :
        /\ \A i \in DOMAIN returned[k] :
              MessageName(returned[k][i].message) \in TrackedNodes
        /\ TrackedNodes = {} => returned[k] = <<>>

C5_Witness ==
    /\ pc = "returned"
    /\ TrackedNodes = {}
    /\ returned[run] = <<>>
    /\ \E n \in DOMAIN Nodes :
         /\ HasLocked(n) /\ LastModified(n) = LmEdge
         /\ WholeDays(clock - LmEdge) > config.max_days
         /\ HasRef(n) /\ RefOf(n) \notin Allowed

\* C6: absent data is skipped.  A tracked node without an origin, or with an
\* origin without a git_ref, has no Disallowed issue; a tracked node without a
\* locked descriptor has no Outdated issue; and no check fails on absent data:
\* the only panic there is happens in MaxAge::run on a node whose locked
\* descriptor is present.
C6_AbsentSkipped ==
    /\ RefsDone =>
         \A n \in TrackedNodes :
            /\ ~HasRef(n) => AboutAny(is2, n) = {}
            /\ ~HasLocked(n) => AboutAny(is1, n) = {}
    /\ \A k \in DOMAIN returned :
         \A n \in TrackedNodes :
            /\ ~HasRef(n) => About(returned[k], "Disallowed", n) = {}
            /\ ~HasLocked(n) => About(returned[k], "Outdated", n) = {}
    /\ panic # <<>> =>
         /\ panic[1].where = "MaxAge::run"
         /\ HasLocked(panic[1].name)

C6_Witness ==
    /\ pc = "returned"
    /\ \E n, m \in TrackedNodes :
         /\ HasLocked(n) /\ Nodes[n].original = <<>>
         /\ About(returned[run], "Outdated", n) # {}
         /\ About(returned[run], "Disallowed", n) = {}
         /\ ~HasLocked(m) /\ HasRef(m) /\ RefOf(m) \notin Allowed
         /\ About(returned[run], "Disallowed", m) # {}
         /\ About(returned[run], "Outdated", m) = {}

\* The loop of MaxAge::run has just handled a node with a locked descriptor:
\* it pushed what it pushes for it, or it panicked.
Handled == pc \in {"maxage", "exit"} /\ now_timestamp # <<>>
HandledName == now_timestamp[1].name
AgeDays == WholeDays(now_timestamp[1].now - LastModified(HandledName))

\* C2: when the loop of MaxAge::run has handled a tracked node with a locked
\* descriptor, its issues hold exactly one Outdated issue about the node,
\* carrying age_days and max_days, if age_days > max_days, and no issue about
\* it if age_days <= max_days, where age_days is (now - last_modified) divided
\* by 86400 with truncation toward zero; and MaxAge::run returns those issues.
C2_OutdatedIffOlder ==
    /\ Handled =>
         IF AgeDays > config.max_days
         THEN /\ Cardinality(About(issues, "Outdated", HandledName)) = 1
              /\ AboutAny(issues, HandledName)
                    = About(issues, "Outdated", HandledName)
              /\ \A i \in About(issues, "Outdated", HandledName) :
                   /\ ParseI64(MsgField(issues[i].message, 2)) = AgeDays
                   /\ ParseI64(MsgField(issues[i].message, 3)) = config.max_days
         ELSE AboutAny(issues, HandledName) = {}
    /\ pc = "refs_call" => is1 = issues

\* C7: a tracked node whose last_modified is later than the sampled current
\* time makes the loop of MaxAge::run neither push an issue about it nor
\* panic.
C7_FutureNoIssueNoCrash ==
    (Handled /\ LastModified(HandledName) > now_timestamp[1].now) =>
        /\ AboutAny(issues, HandledName) = {}
        /\ panic = <<>>

\* Between the start of the first call and now no day boundary was crossed:
\* the wall clock is on the same calendar day, and every tracked node has the
\* same age in days.
NoDayBoundaryCrossed ==
    /\ clock \div SECS_PER_DAY = StartTime \div SECS_PER_DAY
    /\ \A n \in TrackedNodes :
         HasLocked(n) =>
            WholeDays(clock - LastModified(n))
               = WholeDays(StartTime - LastModified(n))

\* C8: two calls of check_flake_lock over the same graph and configuration,
\* with no day boundary crossed between them, return sequences that are equal
\* element by element.
C8_Idempotent ==
    (pc = "returned" /\ run = 2 /\ NoDayBoundaryCrossed) =>
        returned[1] = returned[2]

\* C10: within one call of check_flake_lock, for two tracked nodes A and B
\* that each have an Outdated and a Disallowed issue, A's Outdated issue
\* precedes B's exactly if A's Disallowed issue precedes B's.
C10_SameOrderInBothChecks ==
    \A k \in DOMAIN returned :
        \A a, b \in TrackedNodes :
            \A oa \in About(returned[k], "Outdated", a),
               ob \in About(returned[k], "Outdated", b),
               da \in About(returned[k], "Disallowed", a),
               db \in About(returned[k], "Disallowed", b) :
                (oa < ob) <=> (da < db)

\* what the destination held before the program ran
Earlier == IF dest0 = <<>> THEN <<>> ELSE dest0[1]

\* C9: when main has ended, either it exits with status 0 having read and
\* parsed the lock file and the policy, run both checks and written the whole
\* report to the destination, or it exits with a non-zero status and nothing
\* was created at or written to the destination.
C9_AllOrNothing ==
    exit_status # <<>> =>
        \/ /\ exit_status = <<0>>
           /\ file # <<>> /\ file[1].json # <<>> /\ policy # <<>>
           /\ Len(returned) = 1
           /\ dest = <<Earlier \o RenderSummary(returned[1])>>
        \/ /\ exit_status # <<0>>
           /\ dest = dest0

===========================================================================
